---- MODULE Spec2Model ----
(***************************************************************************)
(* Model of git_logger.py: get_commit_info (three git subprocess calls,    *)
(* the regular-expression parse of `git show --stat`), update_excel (the   *)
(* load / concat / rewrite of commit_log.xlsx through pandas) and the      *)
(* __main__ block that runs both under `except Exception`.                 *)
(*                                                                         *)
(* Text is a sequence of tokens.  A token is one character (a digit, a     *)
(* blank) or a literal of the pattern that the regular expression can only *)
(* match as a whole ("insertion", "s", "(+)"); "x" is any other text.      *)
(***************************************************************************)
EXTENDS Integers, Sequences, FiniteSets, TLC

VARIABLES
    repo,         \* the repository's history, oldest first; HEAD is the last commit
    clock,        \* wall clock in seconds, what datetime.now() reads
    disk,         \* commit_log.xlsx: [exists, valid, rows]
    pc,           \* per invocation: the statement it executes next
    run,          \* per invocation slot: how many times the script has been started
    commit_hash,  \* local of get_commit_info (0: not yet assigned)
    author,       \* local of get_commit_info ("": not yet assigned)
    commit_info,  \* local of __main__: {} or {the record returned}
    df,           \* local of update_excel: the DataFrame's rows
    exc,          \* the exception in flight or caught ("none" if none)
    status,       \* how the script ended: "running", "ok", "reported", "crashed"
    before,       \* history: the disk when the run started / update_excel was entered
    invoked,      \* history: update_excel was entered during this run
    shown,        \* history: the commit whose `git show --stat` output was parsed
    overlap,      \* per invocation: another one had the file open for writing too
    writesSeen,   \* history: rewrites begun by anyone when this run decided its df
    writes,       \* history: rewrites begun so far
    calls,        \* history: the records of the update_excel calls that returned
    text,         \* input of the stand-alone parse
    parsed        \* result of the stand-alone parse (-1: not yet parsed)

vars == <<repo, clock, disk, pc, run, commit_hash, author, commit_info, df, exc,
          status, before, invoked, shown, overlap, writesSeen, writes, calls, text,
          parsed>>

----------------------------------------------------------------------------
(* Bounds *)

MaxCommits == 2
MaxClock == 1
MaxRuns == 2
MaxChunks == 4

----------------------------------------------------------------------------
(* Text and the regular expression  (\d+) insertions?\(\+\)  *)

Digits == {"0", "1", "2", "5"}

DigitVal(c) == CASE c = "0" -> 0 [] c = "1" -> 1 [] c = "2" -> 2 [] c = "5" -> 5

DigitOf(n) == CASE n = 0 -> "0" [] n = 1 -> "1" [] n = 2 -> "2" [] n = 5 -> "5"

IsSpace(c) == c \in {" ", "\n"}

At(t, i) == IF i \in 1..Len(t) THEN t[i] ELSE "<end>"

RECURSIVE LStrip(_)
LStrip(t) == IF t # <<>> /\ IsSpace(Head(t)) THEN LStrip(Tail(t)) ELSE t

RECURSIVE RStrip(_)
RStrip(t) ==
    IF t # <<>> /\ IsSpace(t[Len(t)]) THEN RStrip(SubSeq(t, 1, Len(t) - 1)) ELSE t

\* str.strip()
Strip(t) == RStrip(LStrip(t))

\* int(): the decimal value of a run of digits
RECURSIVE IntOf(_)
IntOf(ds) ==
    IF ds = <<>> THEN 0
    ELSE 10 * IntOf(SubSeq(ds, 1, Len(ds) - 1)) + DigitVal(ds[Len(ds)])

\* the lengths k for which t[i..i+k-1] are all digits: what \d+ can consume at i
DigitRuns(t, i) == {k \in 1..(Len(t) - i + 1) : \A m \in i..(i + k - 1) : t[m] \in Digits}

\* the pattern cut short: ` insertion` with nothing required after it
MatchTailNoSign(t, j) ==
    /\ At(t, j) = " "
    /\ At(t, j + 1) = "insertion"

\* ` insertions?\(\+\)` from position j
MatchTail(t, j) ==
    /\ At(t, j) = " "
    /\ At(t, j + 1) = "insertion"
    /\ \/ At(t, j + 2) = "s" /\ At(t, j + 3) = "(+)"
       \/ At(t, j + 2) = "(+)"

\* the digit-run lengths with which the whole pattern matches at i
MatchAt(t, i) == {k \in DigitRuns(t, i) : MatchTail(t, i + k)}

Max(S) == CHOOSE x \in S : \A y \in S : y <= x

Min(S) == CHOOSE x \in S : \A y \in S : x <= y

\* a search that keeps the last match instead of the first
SearchLast(t) ==
    LET starts == {i \in 1..Len(t) : MatchAt(t, i) # {}}
    IN  IF starts = {} THEN <<>>
        ELSE LET i == Max(starts)
                 k == Max(MatchAt(t, i))
             IN  SubSeq(t, i, i + k - 1)

\* re.search: the leftmost start that matches, \d+ greedy; <<>> stands for None,
\* otherwise group(1)
Search(t) ==
    LET starts == {i \in 1..Len(t) : MatchAt(t, i) # {}}
    IN  IF starts = {} THEN <<>>
        ELSE LET i == Min(starts)
                 k == Max(MatchAt(t, i))
             IN  SubSeq(t, i, i + k - 1)

\* lines 47-50: added_lines
AddedLinesOf(stats) ==
    LET match == Search(stats)
    IN  IF match # <<>> THEN IntOf(match) ELSE 0

----------------------------------------------------------------------------
(* The repository and the output of git *)

\* The commits the environment may create.  ins / del are the inserted and
\* deleted line counts of the commit; msg is its message.
PlainMsg == <<"x">>

\* a message such as `Revert "5 insertions(+)" counter`
FigureMsg == <<"x", " ", "5", " ", "insertion", "s", "(+)", " ", "x">>

CommitInputs ==
    { [author |-> "alice", msg |-> PlainMsg,  ins |-> 2, del |-> 0],
      [author |-> "NA",    msg |-> PlainMsg,  ins |-> 0, del |-> 2],
      [author |-> "bob",   msg |-> FigureMsg, ins |-> 1, del |-> 1] }

HEAD == Len(repo)

\* git rev-parse HEAD: a commit is identified by its position in the history
RevParseHead == HEAD

\* git log -1 --pretty=format:%an
LogAuthor == repo[HEAD].author

Plural(n) == IF n = 1 THEN <<>> ELSE <<"s">>

\* the last line of --stat, as git prints it: the insertions figure is left out
\* when there are only deletions, the deletions figure when there are only
\* insertions, and both are printed when both are zero
Summary(c) ==
    <<" ", "1", " ", "x">>
    \o (IF c.ins > 0 \/ c.del = 0
        THEN <<"x", " ", DigitOf(c.ins), " ", "insertion">> \o Plural(c.ins) \o <<"(+)">>
        ELSE <<>>)
    \o (IF c.del > 0 \/ c.ins = 0
        THEN <<"x", " ", DigitOf(c.del), " ", "deletion">> \o Plural(c.del) \o <<"(-)">>
        ELSE <<>>)
    \o <<"\n">>

\* git show --stat HEAD: header, message, per-file lines, summary line
ShowStat(c) ==
    <<"x", "\n">> \o c.msg \o <<"\n", " ", "x", "\n">> \o Summary(c)

----------------------------------------------------------------------------
(* commit_log.xlsx and pandas *)

Absent == [exists |-> FALSE, valid |-> FALSE, rows |-> <<>>]

\* a workbook holding the header row only
EmptyTable == [exists |-> TRUE, valid |-> TRUE, rows |-> <<>>]

\* the file opened with mode "wb" and nothing, or only part, written yet
Truncated == [exists |-> TRUE, valid |-> FALSE, rows |-> <<>>]

Table(rows) == [exists |-> TRUE, valid |-> TRUE, rows |-> rows]

\* a missing value in a DataFrame (float nan)
NaN == "<nan>"

\* the strings read_excel turns into NaN (keep_default_na = True, no na_values)
STR_NA_VALUES ==
    {"", "#N/A", "#N/A N/A", "#NA", "-1.#IND", "-1.#QNAN", "-NaN", "-nan", "1.#IND",
     "1.#QNAN", "<NA>", "N/A", "NA", "NULL", "NaN", "None", "n/a", "nan", "null"}

\* a text cell as read_excel returns it
ReadCell(v) == IF v \in STR_NA_VALUES THEN NaN ELSE v

\* a text value as to_excel stores it (na_rep = "")
WriteCell(v) == IF v = NaN THEN "" ELSE v

\* Timestamp and Commit Hash are text too, but no timestamp in the format of
\* line 53 and no hexadecimal hash of 40 digits is in STR_NA_VALUES; the
\* Added Lines column holds integers, which are stored and read as they are
ReadRow(r) == [r EXCEPT !.User = ReadCell(r.User)]

WriteRow(r) == [r EXCEPT !.User = WriteCell(r.User)]

\* pd.read_excel(LOG_FILE) of a valid workbook
ReadExcel(d) == [i \in 1..Len(d.rows) |-> ReadRow(d.rows[i])]

\* what df.to_excel(LOG_FILE, index=False) leaves in the file when it completes
ToExcel(rows) == Table([i \in 1..Len(rows) |-> WriteRow(rows[i])])

\* pd.concat([df, pd.DataFrame([data])], ignore_index=True)
Concat(rows, data) == Append(rows, data)

----------------------------------------------------------------------------
(* Exceptions *)

\* subprocess.check_output: CalledProcessError on a non-zero exit status,
\* FileNotFoundError when git cannot be run at all
ToolFailures == {"CalledProcessError", "FileNotFoundError"}

\* bytes.decode()
DecodeFailures == {"UnicodeDecodeError"}

\* pandas / openpyxl / the file system
StoreFailures == {"PermissionError", "OSError", "BadZipFile"}

\* a handler that names the one exception its author thought of
CatchesCalledProcessError(e) == e = "CalledProcessError"

\* line 93: `except Exception` catches every class derived from Exception
Catches(e) == e \in ToolFailures \cup DecodeFailures \cup StoreFailures

\* the failure swallowed where it happens: the script goes on to its end
\* as if the call had returned
RaiseSwallowed(p, e) ==
    /\ pc' = [pc EXCEPT ![p] = "exit"]
    /\ status' = [status EXCEPT ![p] = "ok"]
    /\ exc' = exc

\* an exception raised in get_commit_info or update_excel: neither has a
\* handler, so control passes to the except clause of line 93
Raise(p, e) ==
    /\ pc' = [pc EXCEPT ![p] = "except"]
    /\ exc' = [exc EXCEPT ![p] = e]
    /\ status' = status

----------------------------------------------------------------------------
(* get_commit_info *)

Procs == DOMAIN pc

\* line 38
RevParse(p) ==
    /\ pc[p] = "rev_parse"
    /\ \/ /\ commit_hash' = [commit_hash EXCEPT ![p] = RevParseHead]
          /\ pc' = [pc EXCEPT ![p] = "log_author"]
          /\ UNCHANGED <<exc, status>>
       \/ /\ \E e \in ToolFailures : Raise(p, e)
          /\ UNCHANGED commit_hash
    /\ UNCHANGED <<repo, clock, disk, run, author, commit_info, df, before, invoked,
                   shown, overlap, writesSeen, writes, calls, text, parsed>>

\* line 41.  An author name is one value here; git prints it without
\* surrounding blanks, so strip() returns it as it is.
LogAuthorStep(p) ==
    /\ pc[p] = "log_author"
    /\ \/ /\ author' = [author EXCEPT ![p] = LogAuthor]
          /\ pc' = [pc EXCEPT ![p] = "show_stat"]
          /\ UNCHANGED <<exc, status>>
       \/ /\ \E e \in ToolFailures \cup DecodeFailures : Raise(p, e)
          /\ UNCHANGED author
    /\ UNCHANGED <<repo, clock, disk, run, commit_hash, commit_info, df, before,
                   invoked, shown, overlap, writesSeen, writes, calls, text, parsed>>

\* lines 52-57
Record(p, added_lines) ==
    [Timestamp |-> clock, CommitHash |-> commit_hash[p], User |-> author[p],
     AddedLines |-> added_lines]

\* lines 44-57, and line 91: the record is bound to commit_info
ShowStatStep(p) ==
    /\ pc[p] = "show_stat"
    /\ \/ /\ LET stats == Strip(ShowStat(repo[HEAD]))
             IN  commit_info' = [commit_info EXCEPT ![p] = {Record(p, AddedLinesOf(stats))}]
          /\ shown' = [shown EXCEPT ![p] = HEAD]
          /\ before' = [before EXCEPT ![p] = disk]
          /\ pc' = [pc EXCEPT ![p] = "exists"]
          /\ UNCHANGED <<exc, status>>
       \/ /\ \E e \in ToolFailures \cup DecodeFailures : Raise(p, e)
          /\ UNCHANGED <<commit_info, shown, before>>
    /\ UNCHANGED <<repo, clock, disk, run, commit_hash, author, df, invoked,
                   overlap, writesSeen, writes, calls, text, parsed>>

----------------------------------------------------------------------------
(* update_excel *)

\* the argument of update_excel
Data(p) == CHOOSE r \in commit_info[p] : TRUE

\* lines 71, 76-78
Exists(p) ==
    /\ pc[p] = "exists"
    /\ invoked' = [invoked EXCEPT ![p] = TRUE]
    /\ IF disk.exists
       THEN /\ pc' = [pc EXCEPT ![p] = "read_excel"]
            /\ UNCHANGED <<df, writesSeen>>
       ELSE /\ df' = [df EXCEPT ![p] = <<Data(p)>>]
            /\ writesSeen' = [writesSeen EXCEPT ![p] = writes]
            /\ pc' = [pc EXCEPT ![p] = "open"]
    /\ UNCHANGED <<repo, clock, disk, run, commit_hash, author, commit_info, exc,
                   status, before, shown, overlap, writes, calls, text, parsed>>

\* lines 73-75
ReadExcelStep(p) ==
    /\ pc[p] = "read_excel"
    /\ \/ /\ disk.valid
          /\ df' = [df EXCEPT ![p] = Concat(ReadExcel(disk), Data(p))]
          /\ writesSeen' = [writesSeen EXCEPT ![p] = writes]
          /\ pc' = [pc EXCEPT ![p] = "open"]
          /\ UNCHANGED <<exc, status>>
       \/ /\ ~disk.valid
          /\ Raise(p, "BadZipFile")
          /\ UNCHANGED <<df, writesSeen>>
       \/ /\ Raise(p, "PermissionError")
          /\ UNCHANGED <<df, writesSeen>>
    /\ UNCHANGED <<repo, clock, disk, run, commit_hash, author, commit_info, before,
                   invoked, shown, overlap, writes, calls, text, parsed>>

\* another invocation holds the file open for writing
OpenElsewhere(p) == \E q \in Procs \ {p} : pc[q] = "save"

\* an open that keeps the file and loads it again, as a rewrite under a lock
\* would
OpenAppend(p) ==
    /\ pc[p] = "open"
    /\ df' = [df EXCEPT ![p] = IF disk.valid THEN Concat(ReadExcel(disk), Data(p)) ELSE @]
    /\ writes' = writes + 1
    /\ pc' = [pc EXCEPT ![p] = "save"]
    /\ UNCHANGED <<repo, clock, disk, run, commit_hash, author, commit_info, exc,
                   status, before, invoked, shown, overlap, writesSeen, calls, text,
                   parsed>>

\* line 81, first half: the file is opened for writing, which empties it
Open(p) ==
    /\ pc[p] = "open"
    /\ \/ /\ disk' = Truncated
          /\ writes' = writes + 1
          /\ overlap' = [q \in Procs |->
                            IF q = p THEN OpenElsewhere(p)
                            ELSE overlap[q] \/ pc[q] = "save"]
          /\ pc' = [pc EXCEPT ![p] = "save"]
          /\ UNCHANGED <<exc, status>>
       \/ /\ Raise(p, "PermissionError")
          /\ UNCHANGED <<disk, writes, overlap>>
    /\ UNCHANGED <<repo, clock, run, commit_hash, author, commit_info, df, before,
                   invoked, shown, writesSeen, calls, text, parsed>>

\* lines 81-82, second half: the workbook is written and the file closed.  When
\* two invocations had the file open at once their bytes mix: the file then
\* holds this table or nothing readable.
Save(p) ==
    /\ pc[p] = "save"
    /\ \/ /\ \/ disk' = ToExcel(df[p])
             \/ overlap[p] /\ disk' = Truncated
          /\ calls' = Append(calls, Data(p))
          /\ status' = [status EXCEPT ![p] = "ok"]
          /\ pc' = [pc EXCEPT ![p] = "exit"]
          /\ UNCHANGED exc
       \/ /\ Raise(p, "OSError")
          /\ disk' = Truncated
          /\ UNCHANGED calls
    /\ UNCHANGED <<repo, clock, run, commit_hash, author, commit_info, df, before,
                   invoked, shown, writesSeen, writes, overlap, text, parsed>>

----------------------------------------------------------------------------
(* __main__ *)

\* a handler that fills in defaults and carries on to update_excel
ExceptWithDefaults(p) ==
    /\ pc[p] = "except"
    /\ commit_info' = [commit_info EXCEPT ![p] = {Record(p, 0)}]
    /\ pc' = [pc EXCEPT ![p] = "exists"]
    /\ UNCHANGED <<repo, clock, disk, run, commit_hash, author, df, exc, status,
                   before, invoked, shown, writesSeen, writes, overlap, calls, text,
                   parsed>>

\* lines 93-94: a caught exception is printed and the script ends normally;
\* one that is not caught ends it with a traceback
Except(p) ==
    /\ pc[p] = "except"
    /\ status' = [status EXCEPT ![p] = IF Catches(exc[p]) THEN "reported" ELSE "crashed"]
    /\ pc' = [pc EXCEPT ![p] = "exit"]
    /\ UNCHANGED <<repo, clock, disk, run, commit_hash, author, commit_info, df, exc,
                   before, invoked, shown, writesSeen, writes, overlap, calls, text,
                   parsed>>

\* the script is started again (the next commit event)
Invoke(p) ==
    /\ pc[p] = "exit"
    /\ run[p] < MaxRuns
    /\ run' = [run EXCEPT ![p] = @ + 1]
    /\ pc' = [pc EXCEPT ![p] = "rev_parse"]
    /\ commit_hash' = [commit_hash EXCEPT ![p] = 0]
    /\ author' = [author EXCEPT ![p] = ""]
    /\ commit_info' = [commit_info EXCEPT ![p] = {}]
    /\ df' = [df EXCEPT ![p] = <<>>]
    /\ exc' = [exc EXCEPT ![p] = "none"]
    /\ status' = [status EXCEPT ![p] = "running"]
    /\ before' = [before EXCEPT ![p] = disk]
    /\ invoked' = [invoked EXCEPT ![p] = FALSE]
    /\ shown' = [shown EXCEPT ![p] = 0]
    /\ writesSeen' = [writesSeen EXCEPT ![p] = 0]
    /\ overlap' = [overlap EXCEPT ![p] = FALSE]
    /\ UNCHANGED <<repo, clock, disk, writes, calls, text, parsed>>

----------------------------------------------------------------------------
(* The environment *)

\* somebody commits: HEAD moves to the new commit
Commit ==
    /\ Len(repo) < MaxCommits
    /\ \E c \in CommitInputs : repo' = Append(repo, c)
    /\ UNCHANGED <<clock, disk, pc, run, commit_hash, author, commit_info, df, exc,
                   status, before, invoked, shown, writesSeen, writes, overlap, calls,
                   text, parsed>>

\* a second passes
Tick ==
    /\ clock < MaxClock
    /\ clock' = clock + 1
    /\ UNCHANGED <<repo, disk, pc, run, commit_hash, author, commit_info, df, exc,
                   status, before, invoked, shown, writesSeen, writes, overlap, calls,
                   text, parsed>>

----------------------------------------------------------------------------
(* Specifications *)

InitOf(P) ==
    /\ repo \in {<<c>> : c \in CommitInputs}
    /\ clock = 0
    /\ disk \in {Absent, EmptyTable}
    /\ pc = [p \in P |-> "rev_parse"]
    /\ run = [p \in P |-> 1]
    /\ commit_hash = [p \in P |-> 0]
    /\ author = [p \in P |-> ""]
    /\ commit_info = [p \in P |-> {}]
    /\ df = [p \in P |-> <<>>]
    /\ exc = [p \in P |-> "none"]
    /\ status = [p \in P |-> "running"]
    /\ before = [p \in P |-> disk]
    /\ invoked = [p \in P |-> FALSE]
    /\ shown = [p \in P |-> 0]
    /\ writesSeen = [p \in P |-> 0]
    /\ overlap = [p \in P |-> FALSE]
    /\ writes = 0
    /\ calls = <<>>

\* The script run once per commit event, one run after the other.
Init ==
    /\ InitOf({1})
    /\ text = <<>>
    /\ parsed = -1

Next ==
    \/ \E p \in Procs : RevParse(p)
    \/ \E p \in Procs : LogAuthorStep(p)
    \/ \E p \in Procs : ShowStatStep(p)
    \/ \E p \in Procs : Exists(p)
    \/ \E p \in Procs : ReadExcelStep(p)
    \/ \E p \in Procs : Open(p)
    \/ \E p \in Procs : Save(p)
    \/ \E p \in Procs : Except(p)
    \/ \E p \in Procs : Invoke(p)
    \/ Commit
    \/ Tick

Spec == Init /\ [][Next]_vars

\* Two runs of the script started at the same time against the same file,
\* for the same commit.
InitConc ==
    /\ InitOf({1, 2})
    /\ text = <<>>
    /\ parsed = -1

NextConc ==
    \/ \E p \in Procs : RevParse(p)
    \/ \E p \in Procs : LogAuthorStep(p)
    \/ \E p \in Procs : ShowStatStep(p)
    \/ \E p \in Procs : Exists(p)
    \/ \E p \in Procs : ReadExcelStep(p)
    \/ \E p \in Procs : Open(p)
    \/ \E p \in Procs : Save(p)
    \/ \E p \in Procs : Except(p)
    \/ Tick

SpecConc == InitConc /\ [][NextConc]_vars

\* The parse of lines 44-50 on its own, over bounded texts.
Chunks ==
    { <<"1">>, <<"2">>, <<" ">>, <<"insertion">>, <<"s">>, <<"(+)">>, <<"x">>,
      <<" ", "insertion", "(+)">>, <<" ", "insertion", "s", "(+)">>,
      <<" ", "deletion", "s", "(-)">> }

RECURSIVE Flatten(_)
Flatten(cs) == IF cs = <<>> THEN <<>> ELSE Head(cs) \o Flatten(Tail(cs))

Texts == {Flatten(cs) : cs \in UNION {[1..n -> Chunks] : n \in 0..MaxChunks}}

\* lines 44 (strip) and 47-50
ParseStep ==
    /\ parsed = -1
    /\ parsed' = AddedLinesOf(Strip(text))
    /\ UNCHANGED <<repo, clock, disk, pc, run, commit_hash, author, commit_info, df,
                   exc, status, before, invoked, shown, overlap, writesSeen, writes,
                   calls, text>>

InitParse ==
    /\ InitOf({1})
    /\ text \in Texts
    /\ parsed = -1
    /\ repo = <<[author |-> "alice", msg |-> PlainMsg, ins |-> 2, del |-> 0]>>
    /\ disk = Absent

NextParse == ParseStep

SpecParse == InitParse /\ [][NextParse]_vars

----------------------------------------------------------------------------
(* Properties *)

Range(f) == {f[i] : i \in DOMAIN f}

Returned(p) == pc[p] = "exit" /\ status[p] = "ok"

\* C1: after every update_excel call that returns, the table holds exactly the
\* records of the calls that returned so far, one row per call, in call
\* order, each row equal to the record passed (the store starts absent or
\* empty): no row written earlier has changed.
C1_RowsAreTheRecords ==
    \A p \in Procs : Returned(p) => disk = Table(calls)

\* C2 (as stated): whenever update_excel has failed, the file is exactly as it
\* was when the call began.
C2_AllOrNothing ==
    \A p \in Procs : exc[p] \in StoreFailures => disk = before[p]

\* C2 (amended): a failure of update_excel reaches the caller's handler, and a
\* run ends "ok" only when the complete new table is in the file.  A failure
\* to load the file or to open it for writing leaves the file exactly as it
\* was; a failure after the file was opened for writing leaves it truncated,
\* the rows it held before are gone.
C2_FailureLeavesOldOrTruncated ==
    \A p \in Procs :
        /\ exc[p] \in StoreFailures =>
              pc[p] \in {"except", "exit"} /\ status[p] \in {"running", "reported"}
        /\ exc[p] \in {"BadZipFile", "PermissionError"} => disk = before[p]
        /\ exc[p] = "OSError" => disk = Truncated
        /\ Returned(p) => invoked[p] /\ disk = ToExcel(df[p]) /\ exc[p] = "none"

\* a write that failed midway and destroyed rows written by an earlier run
C2_Witness ==
    \E p \in Procs :
        /\ exc[p] = "OSError"
        /\ status[p] = "reported"
        /\ before[p].valid
        /\ Len(before[p].rows) >= 1
        /\ disk = Truncated

\* C3: when a git invocation exits non-zero or cannot be run, no record is
\* produced, update_excel is not entered in that run, and the file is as it
\* was when the run started; control is in, or past, the handler.
C3_ToolFailureWritesNothing ==
    \A p \in Procs :
        exc[p] \in ToolFailures =>
            /\ commit_info[p] = {}
            /\ ~invoked[p]
            /\ disk = before[p]
            /\ pc[p] \in {"except", "exit"}

\* the third git call failed in a run that found a log with one row
C3_Witness ==
    \E p \in Procs :
        /\ exc[p] = "CalledProcessError"
        /\ pc[p] = "exit"
        /\ commit_hash[p] # 0
        /\ author[p] # ""
        /\ disk.valid
        /\ Len(disk.rows) = 1

\* C6: no run ends with an exception leaving the script; a run in which
\* get_commit_info or update_excel failed ends normally with the failure
\* reported.
C6_FailuresAreCaught ==
    \A p \in Procs :
        /\ status[p] # "crashed"
        /\ pc[p] = "exit" /\ exc[p] # "none" => status[p] = "reported"

\* a store failure caught and reported
C6_Witness ==
    \E p \in Procs :
        pc[p] = "exit" /\ exc[p] \in StoreFailures /\ status[p] = "reported"

\* C8: a call that returns leaves one row more than the file held before (one
\* row if there was no file), and after two calls in a row with distinct
\* records both records are rows of the table.
C8_BothRowsPresent ==
    \A p \in Procs :
        Returned(p) =>
            /\ Len(disk.rows) = Len(before[p].rows) + 1
            /\ LET n == Len(calls)
               IN  n >= 2 /\ calls[n - 1] # calls[n] =>
                       {calls[n - 1], calls[n]} \subseteq Range(disk.rows)

\* the record as the code derives it from one commit c of the history
Describes(r, c) ==
    /\ r.CommitHash = c
    /\ r.User = repo[c].author
    /\ r.AddedLines = AddedLinesOf(Strip(ShowStat(repo[c])))

\* C9: the hash, the user and the added lines of a returned record are those
\* of one commit, the one the hash names.
C9_OneCommit ==
    \A p \in Procs :
        commit_info[p] # {} =>
            Data(p).CommitHash \in 1..Len(repo) /\ Describes(Data(p), Data(p).CommitHash)

\* C10: the added lines of a returned record are the insertions figure of the
\* summary line of the commit that git show printed (0 if it has none).
C10_SummaryFigure ==
    \A p \in Procs :
        commit_info[p] # {} =>
            Data(p).AddedLines = AddedLinesOf(Strip(Summary(repo[shown[p]])))

\* both runs returned, and each decided its table before any rewrite began
BothLoadedFirst == \A p \in Procs : Returned(p) /\ writesSeen[p] = 0

\* C7: when both runs load before either writes and both return, the file
\* never holds both new rows: if readable it is the table of one run alone,
\* one row for two calls that returned.
C7_LostUpdate ==
    BothLoadedFirst =>
        /\ Len(calls) = 2
        /\ disk.valid => Len(disk.rows) = 1 /\ \E p \in Procs : disk = ToExcel(<<Data(p)>>)

\* two runs with different records returned, one row is in the file
C7_Witness ==
    /\ Procs = {1, 2}
    /\ BothLoadedFirst
    /\ Data(1) # Data(2)
    /\ disk.valid
    /\ Len(disk.rows) = 1

\* the decimal value of the digits t[i..j]
RECURSIVE Decimal(_, _, _)
Decimal(t, i, j) == IF j < i THEN 0 ELSE 10 * Decimal(t, i, j - 1) + DigitVal(t[j])

\* t[i..j] is an integer (a whole run of digits) immediately followed by
\* " insertion(+)" or " insertions(+)"
IsFigure(t, i, j) ==
    /\ 1 <= i /\ i <= j /\ j + 3 <= Len(t)
    /\ \A m \in i..j : t[m] \in Digits
    /\ i = 1 \/ t[i - 1] \notin Digits
    /\ t[j + 1] = " "
    /\ t[j + 2] = "insertion"
    /\ \/ t[j + 3] = "(+)"
       \/ t[j + 3] = "s" /\ j + 4 <= Len(t) /\ t[j + 4] = "(+)"

Figures(t) == {f \in (1..Len(t)) \X (1..Len(t)) : IsFigure(t, f[1], f[2])}

FirstFigure(t) == CHOOSE f \in Figures(t) : \A g \in Figures(t) : f[1] <= g[1]

\* C4: a text with an insertions figure parses to the integer of its first
\* figure.
C4_FirstFigure ==
    parsed # -1 /\ Figures(text) # {} =>
        parsed = Decimal(text, FirstFigure(text)[1], FirstFigure(text)[2])

\* two figures with different integers, the first one taken
C4_Witness ==
    /\ parsed # -1
    /\ \E f, g \in Figures(text) :
          /\ f[1] < g[1]
          /\ Decimal(text, f[1], f[2]) # Decimal(text, g[1], g[2])
          /\ parsed = Decimal(text, f[1], f[2])

\* C5: a text without an insertions figure parses to 0.
C5_NoFigureIsZero ==
    parsed # -1 /\ Figures(text) = {} => parsed = 0

\* a deletions-only summary
C5_Witness ==
    /\ parsed = 0
    /\ text = <<"2", " ", "deletion", "s", "(-)">>

====
